---- MODULE Spec2Model ----
(***************************************************************************)
(* Model of the creditor extraction / consolidation / comparison pipeline  *)
(* of utils/ai_analyzer.py (class AIAnalyzer).                             *)
(*                                                                         *)
(* Text is modelled as a sequence of lexemes (a fence ```, the tag json,   *)
(* a bracket, a run of white space, a double quote, a serialized creditor  *)
(* object, a run of serialized creditor objects, ...).  JSON values and    *)
(* lexemes share one record shape [ty, n, s, v] so that any two of them    *)
(* can be compared.                                                        *)
(***************************************************************************)
EXTENDS Integers, Sequences, FiniteSets, TLC

\* extract_creditors_from_chunks and the consolidation it ends with
VARIABLES pc, chunks, idx, all_creditors, progress, calls, cons, result,
          error, chunk_lists, last_batch, reply_log, chunk_replies

\* the response parsers applied to one response text
VARIABLES response, origin, parser_done, parsed_array, parsed_object

\* compare_creditors_with_ai
VARIABLES cmp_pc, old_creditors, new_creditors, comparison, cmp_error,
          cmp_reply, cmp_calls

\* extract_creditors applied to one text
VARIABLES txt_pc, txt_reply, txt_result, txt_error

\* PDFProcessor.extract_text_in_chunks applied to one document
VARIABLES pdf, chk_pc, chk_start, chk_chunks, chk_error

\* process_documents: a comparative run over two documents
VARIABLES run_pc, run_log, run_new_chunks, run_error

\* the Streamlit session of app.py: st.session_state, the position of the
\* script, the number of runs started, the value a run has computed and not
\* yet stored, and what the last handler did
VARIABLES session_state, ses_pc, ses_run, ses_value, ses_last

extraction_vars ==
    <<pc, chunks, idx, all_creditors, progress, calls, cons, result,
      error, chunk_lists, last_batch, reply_log, chunk_replies>>

parser_vars == <<response, origin, parser_done, parsed_array, parsed_object>>

comparison_vars ==
    <<cmp_pc, old_creditors, new_creditors, comparison, cmp_error,
      cmp_reply, cmp_calls>>

text_vars == <<txt_pc, txt_reply, txt_result, txt_error>>

chunker_vars == <<pdf, chk_pc, chk_start, chk_chunks, chk_error>>

run_vars == <<run_pc, run_log, run_new_chunks, run_error,
              session_state, ses_pc, ses_run, ses_value, ses_last>>

vars ==
    <<extraction_vars, parser_vars, comparison_vars, text_vars, chunker_vars,
      run_vars>>

(***************************************************************************)
(* Lexemes and JSON values                                                 *)
(***************************************************************************)
NoPages == "none"

Lx(k) == [ty |-> k, n |-> 0, s |-> "", v |-> <<>>]

LB == Lx("[")
RB == Lx("]")
LC == Lx("{")
RC == Lx("}")
COMMA == Lx(",")
COLON == Lx(":")
FENCE == Lx("fence")
JSONTAG == Lx("json")
WS == Lx("ws")
PROSE == Lx("prose")
QUOTE == Lx("q")
JNull == Lx("null")
JTrue == Lx("true")
JFalse == Lx("false")

\* a creditor object {"nome": <id>} with an optional "_source_pages" field
\* (sp = NoPages when the key is absent); also its serialized text
Rec(id, sp) == [ty |-> "rec", n |-> id, s |-> sp, v |-> <<>>]

\* the text of two or more creditor objects separated by commas, as one
\* lexeme: {"nome": ..}, {"nome": ..}, ...
Recs(records) == [ty |-> "recs", n |-> 0, s |-> "", v |-> records]

\* a number, and its serialized text
JNum(k) == [ty |-> "num", n |-> k, s |-> "", v |-> <<>>]

\* a string without special characters (an object key), and its text
JStr(name) == [ty |-> "str", n |-> 0, s |-> name, v |-> <<>>]

\* a string whose text between the quotes is the lexeme sequence body
JQStr(body) == [ty |-> "str", n |-> 0, s |-> "", v |-> body]

JList(items) == [ty |-> "list", n |-> 0, s |-> "", v |-> items]

JPair(key, val) == [ty |-> "pair", n |-> 0, s |-> "", v |-> <<key, val>>]

JObj(pairs) == [ty |-> "obj", n |-> 0, s |-> "", v |-> pairs]

\* d[key] = val on the members of a dict: a key already present keeps its
\* position and gets the new value, a new key is appended
dict_set(pairs, key, val) ==
    IF \E i \in 1..Len(pairs) : pairs[i].v[1] = key
    THEN [i \in 1..Len(pairs) |->
            IF pairs[i].v[1] = key THEN JPair(key, val) ELSE pairs[i]]
    ELSE Append(pairs, JPair(key, val))

\* d.pop(key, None) on the members of a dict
dict_pop(pairs, key) == SelectSeq(pairs, LAMBDA p : p.v[1] # key)

(***************************************************************************)
(* json.loads: skip white space, read one value, skip white space, and     *)
(* fail (JSONDecodeError) unless the whole text was consumed.              *)
(***************************************************************************)
ParseFail == [ok |-> FALSE, val |-> JNull, nxt |-> 0]

ParseOk(val, nxt) == [ok |-> TRUE, val |-> val, nxt |-> nxt]

RECURSIVE SkipWs(_, _)
SkipWs(s, i) ==
    IF i <= Len(s) /\ s[i].ty = "ws" THEN SkipWs(s, i + 1) ELSE i

RECURSIVE NextOf(_, _, _)
\* index of the first lexeme of kind k at or after i, 0 if there is none
NextOf(s, i, k) ==
    IF i > Len(s) THEN 0
    ELSE IF s[i].ty = k THEN i
    ELSE NextOf(s, i + 1, k)

RECURSIVE FirstOfKinds(_, _, _)
\* index of the first lexeme at or after i whose kind is in ks, 0 if none
FirstOfKinds(s, i, ks) ==
    IF i > Len(s) THEN 0
    ELSE IF s[i].ty \in ks THEN i
    ELSE FirstOfKinds(s, i + 1, ks)

RECURSIVE ParseValue(_, _)
RECURSIVE ParseElements(_, _, _)
RECURSIVE ParseMembers(_, _, _)

\* the elements of an array after "[", i at the start of an element
ParseElements(s, i, acc) ==
    LET run == i <= Len(s) /\ s[i].ty = "recs"
        r == IF run THEN ParseOk(JNull, i + 1) ELSE ParseValue(s, i) IN
    IF ~r.ok THEN ParseFail
    ELSE LET j == SkipWs(s, r.nxt)
             acc2 == IF run THEN acc \o s[i].v ELSE Append(acc, r.val) IN
         IF j > Len(s) THEN ParseFail
         ELSE IF s[j].ty = "]" THEN ParseOk(JList(acc2), j + 1)
         ELSE IF s[j].ty = "," THEN ParseElements(s, SkipWs(s, j + 1), acc2)
         ELSE ParseFail

\* the members of an object after "{", i at the start of a key
ParseMembers(s, i, acc) ==
    IF i > Len(s) \/ s[i].ty \notin {"str", "q"} THEN ParseFail
    ELSE LET k == ParseValue(s, i) IN
         IF ~k.ok THEN ParseFail
         ELSE LET c == SkipWs(s, k.nxt) IN
              IF c > Len(s) \/ s[c].ty # ":" THEN ParseFail
              ELSE LET r == ParseValue(s, SkipWs(s, c + 1)) IN
                   IF ~r.ok THEN ParseFail
                   ELSE LET j == SkipWs(s, r.nxt)
                            acc2 == dict_set(acc, k.val, r.val) IN
                        IF j > Len(s) THEN ParseFail
                        ELSE IF s[j].ty = "}" THEN ParseOk(JObj(acc2), j + 1)
                        ELSE IF s[j].ty = "," THEN ParseMembers(s, SkipWs(s, j + 1), acc2)
                        ELSE ParseFail

\* one JSON value starting at lexeme i (white space already skipped); a run
\* of creditor objects is a value followed by a comma, which is an error
\* everywhere but among the elements of an array
ParseValue(s, i) ==
    IF i > Len(s) THEN ParseFail
    ELSE LET t == s[i] IN
         CASE t.ty \in {"rec", "num", "str", "null", "true", "false"} -> ParseOk(t, i + 1)
           [] t.ty = "q" ->
                \* the string ends at the next quote character; the text of a
                \* creditor object or of a key contains quotes itself
                LET j == FirstOfKinds(s, i + 1, {"q", "rec", "recs", "str"}) IN
                IF j = 0 \/ s[j].ty # "q" THEN ParseFail
                ELSE ParseOk(JQStr(SubSeq(s, i + 1, j - 1)), j + 1)
           [] t.ty = "[" ->
                LET j == SkipWs(s, i + 1) IN
                IF j <= Len(s) /\ s[j].ty = "]" THEN ParseOk(JList(<<>>), j + 1)
                ELSE ParseElements(s, j, <<>>)
           [] t.ty = "{" ->
                LET j == SkipWs(s, i + 1) IN
                IF j <= Len(s) /\ s[j].ty = "}" THEN ParseOk(JObj(<<>>), j + 1)
                ELSE ParseMembers(s, j, <<>>)
           [] OTHER -> ParseFail

json_loads(s) ==
    LET r == ParseValue(s, SkipWs(s, 1)) IN
    IF r.ok /\ SkipWs(s, r.nxt) = Len(s) + 1
    THEN [ok |-> TRUE, val |-> r.val]
    ELSE [ok |-> FALSE, val |-> JNull]

(***************************************************************************)
(* json.dumps, as the text a well-behaved service writes                   *)
(***************************************************************************)
RECURSIVE json_dumps(_)
RECURSIVE DumpSeq(_, _)

\* the members of a list or object, separated by commas
DumpSeq(items, i) ==
    IF i > Len(items) THEN <<>>
    ELSE json_dumps(items[i])
         \o (IF i < Len(items) THEN <<COMMA>> ELSE <<>>)
         \o DumpSeq(items, i + 1)

json_dumps(val) ==
    CASE val.ty = "list" ->
            IF Len(val.v) >= 2 /\ \A i \in 1..Len(val.v) : val.v[i].ty = "rec"
            THEN <<LB, Recs(val.v), RB>>
            ELSE <<LB>> \o DumpSeq(val.v, 1) \o <<RB>>
      [] val.ty = "obj" -> <<LC>> \o DumpSeq(val.v, 1) \o <<RC>>
      [] val.ty = "pair" -> json_dumps(val.v[1]) \o <<COLON>> \o json_dumps(val.v[2])
      [] val.ty = "str" /\ val.s = "" -> <<QUOTE>> \o val.v \o <<QUOTE>>
      [] OTHER -> <<val>>

(***************************************************************************)
(* The regular expressions and string operations of the response parsers   *)
(***************************************************************************)
RECURSIVE LastOfKinds(_, _, _)
\* index of the last lexeme at or before i whose kind is in ks, 0 if none
LastOfKinds(s, i, ks) ==
    IF i < 1 THEN 0
    ELSE IF s[i].ty \in ks THEN i
    ELSE LastOfKinds(s, i - 1, ks)

RECURSIVE SkipWsBack(_, _)
\* the last index at or before i that is not white space (0 if none)
SkipWsBack(s, i) ==
    IF i >= 1 /\ s[i].ty = "ws" THEN SkipWsBack(s, i - 1) ELSE i

\* str.strip()
strip(s) == SubSeq(s, SkipWs(s, 1), SkipWsBack(s, Len(s)))

NoMatch == [found |-> FALSE, group |-> <<>>]

\* re.search(r'```(?:json)?\s*(.*?)\s*```', response, re.DOTALL): the
\* leftmost fence that has a later fence, an optional json tag, white space,
\* then lazily up to the white space before the next fence; group(1)
code_block_search(s) ==
    LET i == NextOf(s, 1, "fence") IN
    IF i = 0 \/ NextOf(s, i + 1, "fence") = 0 THEN NoMatch
    ELSE LET p == IF s[i + 1].ty = "json" THEN i + 2 ELSE i + 1
             b == SkipWs(s, p)
             j == NextOf(s, b, "fence")
             e == IF SkipWsBack(s, j - 1) < b THEN b - 1 ELSE SkipWsBack(s, j - 1)
         IN [found |-> TRUE, group |-> SubSeq(s, b, e)]

\* variant: the match ends at the first "]" (a lazy pattern)
array_pattern_search_lazy(s) ==
    LET a == FirstOfKinds(s, 1, {"["})
        b == IF a = 0 THEN 0 ELSE FirstOfKinds(s, a + 1, {"]"})
    IN IF a = 0 \/ b = 0 THEN NoMatch
       ELSE [found |-> TRUE, group |-> SubSeq(s, a, b)]

\* re.search(r'\[.*\]', response, re.DOTALL): greedy, from the first "[" to
\* the last "]"; group(0)
array_pattern_search(s) ==
    LET a == FirstOfKinds(s, 1, {"["})
        b == LastOfKinds(s, Len(s), {"]"})
    IN IF a = 0 \/ b < a THEN NoMatch
       ELSE [found |-> TRUE, group |-> SubSeq(s, a, b)]

\* re.search(r'\{.*\}', response, re.DOTALL): greedy, from the first "{" to
\* the last "}"; the text of a creditor object, or of a run of them,
\* begins with "{" and ends with "}"
object_pattern_search(s) ==
    LET a == FirstOfKinds(s, 1, {"{", "rec", "recs"})
        b == LastOfKinds(s, Len(s), {"}", "rec", "recs"})
    IN IF a = 0 \/ b < a THEN NoMatch
       ELSE [found |-> TRUE, group |-> SubSeq(s, a, b)]

\* Strategy 4 of _parse_ai_response: strip, drop surrounding fences and a
\* leading json tag
clean_response(s) ==
    LET c1 == strip(s)
        fenced == Len(c1) > 0 /\ c1[1].ty = "fence" /\ c1[Len(c1)].ty = "fence"
        c2 == IF fenced THEN strip(SubSeq(c1, 2, Len(c1) - 1)) ELSE c1
    IN IF fenced /\ Len(c2) > 0 /\ c2[1].ty = "json"
       THEN strip(SubSeq(c2, 2, Len(c2)))
       ELSE c2

(***************************************************************************)
(* AIAnalyzer._parse_ai_response and AIAnalyzer._parse_comparison_response *)
(***************************************************************************)
NotTried == [ok |-> FALSE, val |-> JNull]

Strategy1(s) == json_loads(s)

Strategy2(s) ==
    LET m == code_block_search(s) IN
    IF m.found THEN json_loads(m.group) ELSE NotTried

Strategy3Array(s) ==
    LET m == array_pattern_search(s) IN
    IF m.found THEN json_loads(m.group) ELSE NotTried

Strategy3Object(s) ==
    LET m == object_pattern_search(s) IN
    IF m.found THEN json_loads(m.group) ELSE NotTried

Strategy4(s) == json_loads(clean_response(s))

\* variant: None instead of the empty list when every strategy failed
parse_ai_response_none(s) ==
    IF Strategy1(s).ok THEN Strategy1(s).val
    ELSE IF Strategy2(s).ok THEN Strategy2(s).val
    ELSE IF Strategy3Array(s).ok THEN Strategy3Array(s).val
    ELSE IF Strategy4(s).ok THEN Strategy4(s).val
    ELSE JNull

\* variant: the bracket span is tried before the fenced block
parse_ai_response_span_first(s) ==
    IF Strategy1(s).ok THEN Strategy1(s).val
    ELSE IF Strategy3Array(s).ok THEN Strategy3Array(s).val
    ELSE IF Strategy2(s).ok THEN Strategy2(s).val
    ELSE IF Strategy4(s).ok THEN Strategy4(s).val
    ELSE JList(<<>>)

parse_ai_response(s) ==
    IF Strategy1(s).ok THEN Strategy1(s).val
    ELSE IF Strategy2(s).ok THEN Strategy2(s).val
    ELSE IF Strategy3Array(s).ok THEN Strategy3Array(s).val
    ELSE IF Strategy4(s).ok THEN Strategy4(s).val
    ELSE JList(<<>>)

SummaryKeys ==
    <<"total_old", "total_new", "new_count", "removed_count",
      "modified_count", "unchanged_count">>

BucketKeys ==
    <<"new_creditors", "removed_creditors", "modified_creditors",
      "unchanged_creditors">>

\* the default result of _parse_comparison_response
DefaultComparison ==
    JObj([i \in 1..4 |-> JPair(JStr(BucketKeys[i]), JList(<<>>))]
         \o << JPair(JStr("summary"),
                     JObj([i \in 1..6 |-> JPair(JStr(SummaryKeys[i]), JNum(0))])) >>)

\* variant: without a parse the result is an object with no keys
parse_comparison_response_bare(s) ==
    IF Strategy1(s).ok THEN Strategy1(s).val
    ELSE IF Strategy2(s).ok THEN Strategy2(s).val
    ELSE IF Strategy3Object(s).ok THEN Strategy3Object(s).val
    ELSE JObj(<<>>)

parse_comparison_response(s) ==
    IF Strategy1(s).ok THEN Strategy1(s).val
    ELSE IF Strategy2(s).ok THEN Strategy2(s).val
    ELSE IF Strategy3Object(s).ok THEN Strategy3Object(s).val
    ELSE DefaultComparison

(***************************************************************************)
(* Python operations on parsed values                                      *)
(***************************************************************************)
\* bool(x)
Truthy(x) ==
    CASE x.ty \in {"list", "obj"} -> Len(x.v) > 0
      [] x.ty = "rec" -> TRUE
      [] x.ty = "str" -> x.s # "" \/ Len(x.v) > 0
      [] x.ty = "num" -> x.n # 0
      [] x.ty = "true" -> TRUE
      [] OTHER -> FALSE

\* len(x) raises TypeError for numbers, booleans and None
HasLen(x) == x.ty \in {"list", "obj", "rec", "str"}

IsDict(x) == x.ty \in {"rec", "obj"}

SOURCE_PAGES == JStr("_source_pages")

\* f"{start_page}-{end_page}"
PageRange(start_page, end_page) == ToString(start_page) \o "-" \o ToString(end_page)

\* creditor['_source_pages'] = sp, for a dict
set_source_pages(c, sp) ==
    IF c.ty = "rec" THEN [c EXCEPT !.s = sp]
    ELSE [c EXCEPT !.v = dict_set(c.v, SOURCE_PAGES, JStr(sp))]

\* creditor.pop('_source_pages', None), for a dict
pop_source_pages(c) ==
    IF c.ty = "rec" THEN [c EXCEPT !.s = NoPages]
    ELSE [c EXCEPT !.v = dict_pop(c.v, SOURCE_PAGES)]

has_source_pages(c) ==
    CASE c.ty = "rec" -> c.s # NoPages
      [] c.ty = "obj" -> \E i \in 1..Len(c.v) : c.v[i].v[1] = SOURCE_PAGES
      [] OTHER -> FALSE

\* the elements a for loop over x visits: the items of a list, the keys of a
\* dict, the characters of a string; ok is FALSE when x is not iterable
Iterate(x) ==
    CASE x.ty = "list" -> [ok |-> TRUE, items |-> x.v]
      [] x.ty = "obj" -> [ok |-> TRUE, items |-> [i \in 1..Len(x.v) |-> x.v[i].v[1]]]
      [] x.ty = "rec" -> [ok |-> TRUE, items |-> <<JStr("nome")>>]
      [] x.ty = "str" -> [ok |-> TRUE, items |-> IF x.s # "" THEN <<x>> ELSE x.v]
      [] OTHER -> [ok |-> FALSE, items |-> <<>>]

\* "for creditor in creditors: creditor.pop('_source_pages', None)" followed
\* by "return creditors".  The loop raises (AttributeError, TypeError) on an
\* element that is not a dict.  creditors is a list here, or a string when
\* two string results were concatenated.
strip_provenance(creditors) ==
    LET it == Iterate(creditors) IN
    IF it.ok /\ \A i \in 1..Len(it.items) : IsDict(it.items[i])
    THEN [raised |-> FALSE,
          val |-> IF creditors.ty = "list"
                  THEN JList([i \in 1..Len(creditors.v) |-> pop_source_pages(creditors.v[i])])
                  ELSE creditors]
    ELSE [raised |-> TRUE, val |-> JNull]

\* variant: a record that already has the field keeps its value
tag_chunk_creditors_keep(chunk_creditors, sp) ==
    LET it == Iterate(chunk_creditors) IN
    IF it.ok /\ \A i \in 1..Len(it.items) : IsDict(it.items[i])
    THEN [raised |-> FALSE,
          items |-> [i \in 1..Len(it.items) |->
                        IF has_source_pages(it.items[i]) THEN it.items[i]
                        ELSE set_source_pages(it.items[i], sp)]]
    ELSE [raised |-> TRUE, items |-> <<>>]

\* "for creditor in chunk_creditors: creditor['_source_pages'] = sp" followed
\* by all_creditors.extend(chunk_creditors): the records appended, or raised
\* when chunk_creditors is not iterable or yields an element that does not
\* support item assignment by key
tag_chunk_creditors(chunk_creditors, sp) ==
    LET it == Iterate(chunk_creditors) IN
    IF it.ok /\ \A i \in 1..Len(it.items) : IsDict(it.items[i])
    THEN [raised |-> FALSE,
          items |-> [i \in 1..Len(it.items) |-> set_source_pages(it.items[i], sp)]]
    ELSE [raised |-> TRUE, items |-> <<>>]

StrBody(x) == IF x.s = "" THEN x.v ELSE <<[PROSE EXCEPT !.s = x.s]>>

\* variant: the operands the other way round
py_add_reversed(a, b) ==
    CASE a.ty = "list" /\ b.ty = "list" -> [raised |-> FALSE, val |-> JList(b.v \o a.v)]
      [] a.ty = "str" /\ b.ty = "str" ->
            [raised |-> FALSE, val |-> JQStr(StrBody(b) \o StrBody(a))]
      [] OTHER -> [raised |-> TRUE, val |-> JNull]

\* a + b: defined for two lists and for two strings, TypeError otherwise
py_add(a, b) ==
    CASE a.ty = "list" /\ b.ty = "list" -> [raised |-> FALSE, val |-> JList(a.v \o b.v)]
      [] a.ty = "str" /\ b.ty = "str" ->
            [raised |-> FALSE, val |-> JQStr(StrBody(a) \o StrBody(b))]
      [] OTHER -> [raised |-> TRUE, val |-> JNull]

\* len(x), for a value that has a length
PyLen(x) ==
    CASE x.ty \in {"list", "obj"} -> Len(x.v)
      [] x.ty = "rec" -> IF x.s = NoPages THEN 1 ELSE 2
      [] OTHER -> IF x.s # "" THEN 1 ELSE Len(x.v)

(***************************************************************************)
(* The generative service (fal_client.run): a call raises, or returns a    *)
(* response whose content is a string, possibly empty.                     *)
(***************************************************************************)
Raises == [raises |-> TRUE, content |-> <<>>]

Content(s) == [raises |-> FALSE, content |-> s]

\* str(e) of the exception a failing service call raises
ServiceError == "fal_client: request failed"

\* f"{label}: {str(e)}", the message of the exception the except clauses raise
ErrorMessage(label, cause) == label \o ": " \o cause

(***************************************************************************)
(* AIAnalyzer._consolidate_batch                                           *)
(***************************************************************************)
\* variant: an empty parsed list is returned as it is
consolidate_batch_trust_empty(creditors, out) ==
    IF out.raises
    THEN strip_provenance(creditors)
    ELSE LET validate(consolidated) ==
                 IF consolidated.ty = "list" \/ (Truthy(consolidated) /\ HasLen(consolidated))
                 THEN [raised |-> FALSE, val |-> consolidated]
                 ELSE strip_provenance(creditors)
         IN validate(parse_ai_response(out.content))

\* variant: an exception of the service call is passed on to the caller
consolidate_batch_propagate(creditors, out) ==
    IF out.raises
    THEN [raised |-> TRUE, val |-> JNull]
    ELSE LET validate(consolidated) ==
                 IF Truthy(consolidated) /\ HasLen(consolidated)
                 THEN [raised |-> FALSE, val |-> consolidated]
                 ELSE strip_provenance(creditors)
         IN validate(parse_ai_response(out.content))

consolidate_batch(creditors, out) ==
    IF out.raises
    THEN strip_provenance(creditors)                      \* except: lines 247-251
    ELSE LET validate(consolidated) ==
                 IF ~Truthy(consolidated)
                 THEN strip_provenance(creditors)                 \* else: lines 241-245
                 ELSE IF ~HasLen(consolidated)
                 THEN strip_provenance(creditors)                 \* TypeError, then except
                 ELSE IF PyLen(consolidated) > 0
                 THEN [raised |-> FALSE, val |-> consolidated]    \* line 240
                 ELSE strip_provenance(creditors)
         IN validate(parse_ai_response(out.content))

(***************************************************************************)
(* AIAnalyzer._consolidate_creditors_with_ai, one step per service call.   *)
(* A consolidation state c holds the argument list (creditors), the        *)
(* offset i of the current batch, consolidated_result, the list waiting    *)
(* for the fold call (combined), and how the method ended.                 *)
(***************************************************************************)
SMALL_LIST_MAX == 150

batch_size == 100

\* variant: len(creditors) < 150
IsSmall_strict(creditors) == Len(creditors.v) < SMALL_LIST_MAX

\* len(creditors) <= 150, line 147
IsSmall(creditors) == Len(creditors.v) <= SMALL_LIST_MAX

ConsStart(creditors) ==
    [creditors |-> creditors, i |-> 0, consolidated_result |-> JList(<<>>),
     combined |-> JNull, phase |-> "batch", status |-> "running",
     ret |-> JNull, ncalls |-> 0]

\* creditors[i:i + batch_size]
BatchAt(creditors, i) ==
    JList(SubSeq(creditors.v, i + 1,
                 IF i + batch_size < Len(creditors.v) THEN i + batch_size
                 ELSE Len(creditors.v)))

\* the list the next service call is about
ConsInput(c) ==
    IF IsSmall(c.creditors) THEN c.creditors
    ELSE IF c.phase = "fold" THEN c.combined
    ELSE BatchAt(c.creditors, c.i)

\* variant: the handler raises again instead of returning the list
ConsFallback_reraise(c) == [c EXCEPT !.status = "raised"]

\* variant: the handler returns the running total reached so far
ConsFallback_partial(c) ==
    [c EXCEPT !.status = "returned", !.ret = c.consolidated_result]

\* except of lines 175-180: strip the whole argument list and return it
ConsFallback(c) ==
    LET finish(r) ==
            IF r.raised THEN [c EXCEPT !.status = "raised"]
            ELSE [c EXCEPT !.status = "returned", !.ret = r.val]
    IN finish(strip_provenance(c.creditors))

\* the end of one iteration of the batch loop with the new running total
ConsAdvance(c, total) ==
    IF c.i + batch_size < Len(c.creditors.v)
    THEN [c EXCEPT !.consolidated_result = total, !.i = c.i + batch_size,
                   !.phase = "batch", !.combined = JNull]
    ELSE [c EXCEPT !.consolidated_result = total, !.combined = JNull,
                   !.status = "returned", !.ret = total]

ConsStep(c0, out) ==
    LET after(c, r) ==
            IF r.raised THEN [fallback |-> TRUE, c |-> c]
            ELSE IF IsSmall(c.creditors)
            THEN [fallback |-> FALSE,                                  \* line 148
                  c |-> [c EXCEPT !.status = "returned", !.ret = r.val]]
            ELSE IF c.phase = "batch" /\ Truthy(c.consolidated_result) \* line 165
            THEN LET fold(sum) ==                                      \* line 167
                         IF sum.raised THEN [fallback |-> TRUE, c |-> c]
                         ELSE [fallback |-> FALSE,
                               c |-> [c EXCEPT !.phase = "fold",
                                               !.combined = sum.val]]
                 IN fold(py_add(c.consolidated_result, r.val))
            ELSE [fallback |-> FALSE, c |-> ConsAdvance(c, r.val)]     \* lines 168, 170
        end(a) == IF a.fallback THEN ConsFallback(a.c) ELSE a.c
    IN end(after([c0 EXCEPT !.ncalls = c0.ncalls + 1],
                 consolidate_batch(ConsInput(c0), out)))

(***************************************************************************)
(* Bounds of the checked instances                                         *)
(***************************************************************************)
MaxPages == 3

MaxPagesPerChunk == 2

MaxRecords == 201

MaxLen == 3

MaxArrayLen == 2

MaxListLen == 2

(***************************************************************************)
(* What the service may answer                                             *)
(***************************************************************************)
\* text inside a fenced block tagged json, after a sentence of prose
Fenced(s) == <<PROSE, WS, FENCE, JSONTAG, WS>> \o s \o <<WS, FENCE>>

\* two records describe the same creditor
SameCreditor(a, b) == IF a.ty = "rec" /\ b.ty = "rec" THEN a.n = b.n ELSE a = b

\* the first record of every creditor, in order
Dedup(items) ==
    LET keep == {i \in 1..Len(items) :
                    \A j \in 1..(i - 1) : ~SameCreditor(items[j], items[i])}
        rank(i) == Cardinality({j \in keep : j <= i})
    IN [k \in 1..Cardinality(keep) |->
            items[CHOOSE i \in keep : rank(i) = k]]

DictItems(x) ==
    IF Iterate(x).ok THEN SelectSeq(Iterate(x).items, IsDict) ELSE <<>>

StripAll(items) == [i \in 1..Len(items) |-> pop_source_pages(items[i])]

ButLast(items) == SubSeq(items, 1, Len(items) - 1)

\* answers to an extraction prompt
ExtractionReplies ==
    { Raises,
      Content(<<>>),
      Content(<<LB, RB>>),
      Content(json_dumps(JList(<<Rec(1, NoPages)>>))),
      Content(Fenced(json_dumps(JList(<<Rec(1, NoPages), Rec(2, NoPages)>>)))),
      Content(json_dumps(JList(<<Rec(2, "9-9"), JObj(<<JPair(JStr("k"), JNum(5))>>)>>))),
      Content(json_dumps(Rec(1, NoPages))) }

\* answers to a consolidation prompt that lists the records of x
ConsolidationReplies(x) ==
    LET items == DictItems(x) IN
    { Raises,
      Content(<<>>),
      Content(<<PROSE>>),
      Content(<<LB, RB>>),
      Content(<<LC, RC>>),
      Content(<<JNum(5)>>),
      Content(<<LB, JNum(5), RB>>),
      Content(<<QUOTE, PROSE, QUOTE>>),
      Content(json_dumps(Rec(1, NoPages))),
      Content(json_dumps(JList(items))),
      Content(Fenced(json_dumps(JList(Dedup(StripAll(items)))))),
      Content(json_dumps(JList(ButLast(Dedup(StripAll(items)))))) }

\* what kind of value an answer carries
ReplyClass(out) ==
    IF out.raises THEN "raise"
    ELSE IF ~(Strategy1(out.content).ok \/ Strategy2(out.content).ok
              \/ Strategy3Array(out.content).ok \/ Strategy4(out.content).ok)
    THEN "unparseable"
    ELSE LET class(val) ==
                 IF val.ty # "list" THEN "nonlist"
                 ELSE IF \A i \in 1..Len(val.v) : IsDict(val.v[i]) THEN "records"
                 ELSE "mixedlist"
         IN class(parse_ai_response(out.content))

(***************************************************************************)
(* The chunks handed to extract_creditors_from_chunks                      *)
(***************************************************************************)
Chunk(start_page, end_page, total_pages) ==
    [start_page |-> start_page, end_page |-> end_page, total_pages |-> total_pages]

Min(a, b) == IF a < b THEN a ELSE b

\* the chunks of a document of total pages, c pages per chunk, without the
\* chunks all of whose pages are in blank (pages that yield no text)
RECURSIVE ChunksFrom(_, _, _, _)
ChunksFrom(start, total, c, blank) ==
    IF start >= total THEN <<>>
    ELSE LET end == Min(start + c, total) IN
         (IF (start + 1)..end \subseteq blank THEN <<>>
          ELSE <<Chunk(start + 1, end, total)>>)
         \o ChunksFrom(start + c, total, c, blank)

ChunkLists ==
    { ChunksFrom(0, total, c, blank) :
        total \in 1..MaxPages, c \in 1..MaxPagesPerChunk,
        blank \in SUBSET (1..MaxPages) } \ {<<>>}

(***************************************************************************)
(* AIAnalyzer.extract_creditors_from_chunks                                *)
(***************************************************************************)
NoResult == [records |-> JNull, count |-> -1]

NoBatch == [input |-> JNull, out |-> Raises, raised |-> FALSE, val |-> JNull]

\* the variables of the parts a specification does not exercise
ParserIdle ==
    /\ response = <<>>
    /\ origin = JNull
    /\ parser_done = {}
    /\ parsed_array = JNull
    /\ parsed_object = JNull

ComparisonIdle ==
    /\ cmp_pc = "idle"
    /\ old_creditors = <<>>
    /\ new_creditors = <<>>
    /\ comparison = JNull
    /\ cmp_error = ""
    /\ cmp_reply = Raises
    /\ cmp_calls = 0

TextIdle ==
    /\ txt_pc = "idle"
    /\ txt_reply = Raises
    /\ txt_result = NoResult
    /\ txt_error = ""

ChunkerIdle ==
    /\ pdf = <<>>
    /\ chk_pc = "idle"
    /\ chk_start = 0
    /\ chk_chunks = <<>>
    /\ chk_error = ""

\* None in a result slot of the session; the result of run n is tagged
\* with n, and empty is TRUE for None and for a result that is falsy
None == [run |-> 0, empty |-> TRUE]

\* app.py lines 28-40: the session state of a new session
SessionStart ==
    /\ session_state = [comparison_results |-> None,
                        single_analysis_results |-> None,
                        processing_complete |-> FALSE,
                        analysis_mode |-> "Análise Comparativa"]
    /\ ses_run = 0
    /\ ses_value = None
    /\ ses_last = <<"start", "start">>

RunIdle ==
    /\ run_pc = "off"
    /\ run_log = <<>>
    /\ run_new_chunks = <<>>
    /\ run_error = ""
    /\ ses_pc = "off"
    /\ SessionStart

Init ==
    /\ pc = "loop"
    /\ chunks \in ChunkLists
    /\ idx = 0
    /\ all_creditors = <<>>
    /\ progress = <<>>
    /\ calls = <<>>
    /\ cons = ConsStart(JList(<<>>))
    /\ result = NoResult
    /\ error = ""
    /\ chunk_lists = <<>>
    /\ last_batch = NoBatch
    /\ reply_log = <<>>
    /\ chunk_replies = <<>>
    /\ ParserIdle
    /\ ComparisonIdle
    /\ TextIdle
    /\ ChunkerIdle
    /\ RunIdle

\* variant: the index is reported one-based
CallbackArgs_one_based(i) ==
    <<i + 1, Len(chunks), chunks[i + 1].start_page, chunks[i + 1].end_page>>

\* progress_callback(i, len(chunks), start_page, end_page)
CallbackArgs(i) ==
    <<i, Len(chunks), chunks[i + 1].start_page, chunks[i + 1].end_page>>

\* variant: the callback reports the chunk whose call has just returned
report_progress_after(log, i) ==
    IF i = 0 THEN log ELSE Append(log, CallbackArgs(i - 1))

\* lines 91-92: the callback is invoked for chunk i at the top of the
\* iteration, before the service call of lines 100-108
report_progress(log, i) == Append(log, CallbackArgs(i))

\* the head of the loop over the chunks: the progress callback of the next
\* chunk, or after the last chunk the hand-over to the consolidation
\* variant: the consolidation is asked for whatever the count
NeedsConsolidation_always(pre_consolidation_count) == pre_consolidation_count >= 0

\* if pre_consolidation_count > 0, line 122
NeedsConsolidation(pre_consolidation_count) == pre_consolidation_count > 0

LoopHead ==
    /\ pc = "loop"
    /\ IF idx < Len(chunks)
       THEN /\ progress' = report_progress(progress, idx)
            /\ pc' = "call"
            /\ UNCHANGED <<cons, result>>
       ELSE IF NeedsConsolidation(Len(all_creditors))
       THEN /\ cons' = ConsStart(JList(all_creditors))
            /\ pc' = "consolidate"
            /\ UNCHANGED <<progress, result>>
       ELSE /\ result' = [records |-> JList(all_creditors), count |-> Len(all_creditors)]
            /\ pc' = "done"
            /\ UNCHANGED <<progress, cons>>
    /\ UNCHANGED <<chunks, idx, all_creditors, calls, error, chunk_lists,
                   last_batch, reply_log, chunk_replies, parser_vars,
                   comparison_vars, text_vars, chunker_vars, run_vars>>

\* all_creditors.extend(chunk_creditors)
extend(all, tagged) == all \o tagged

\* the service call for chunk idx, the parsing and the tagging of its records
ChunkCall ==
    /\ pc = "call"
    /\ \E out \in ExtractionReplies :
         LET chunk == chunks[idx + 1]
             tag(chunk_creditors) ==
                 [parsed |-> chunk_creditors,
                  tagged |-> tag_chunk_creditors(chunk_creditors,
                                PageRange(chunk.start_page, chunk.end_page))]
             step(r) ==
                 /\ calls' = Append(calls, "extract")
                 /\ chunk_replies' = Append(chunk_replies, out)
                 /\ IF out.raises \/ r.tagged.raised
                    THEN /\ pc' = "failed"
                         /\ error' = ErrorMessage("Erro na extração em blocos",
                                          IF out.raises THEN ServiceError
                                          ELSE "TypeError")
                         /\ UNCHANGED <<idx, all_creditors, chunk_lists>>
                    ELSE /\ pc' = "loop"
                         /\ idx' = idx + 1
                         /\ all_creditors' = extend(all_creditors, r.tagged.items)
                         /\ chunk_lists' = Append(chunk_lists, Iterate(r.parsed).items)
                         /\ UNCHANGED error
         IN step(tag(parse_ai_response(out.content)))
    /\ UNCHANGED <<chunks, progress, cons, result, last_batch, reply_log,
                   parser_vars, comparison_vars, text_vars, chunker_vars,
                   run_vars>>

\* one service call of the consolidation and what follows it up to the next
\* call or to the return of extract_creditors_from_chunks
ConsolidationCall ==
    /\ pc = "consolidate"
    /\ \E out \in ConsolidationReplies(ConsInput(cons)) :
         LET step(input, c, r) ==
                 /\ cons' = c
                 /\ calls' = Append(calls, "consolidate")
                 /\ last_batch' = [input |-> input, out |-> out,
                                   raised |-> r.raised, val |-> r.val]
                 /\ reply_log' = Append(reply_log, ReplyClass(out))
                 /\ pc' = IF c.status = "returned" THEN "done"
                          ELSE IF c.status = "raised" THEN "failed"
                          ELSE "consolidate"
                 /\ result' = IF c.status = "returned"
                              THEN [records |-> c.ret, count |-> Len(all_creditors)]
                              ELSE result
                 /\ error' = IF c.status = "raised"
                             THEN ErrorMessage("Erro na extração em blocos",
                                               "AttributeError")
                             ELSE error
         IN step(ConsInput(cons), ConsStep(cons, out),
                 consolidate_batch(ConsInput(cons), out))
    /\ UNCHANGED <<chunks, idx, all_creditors, progress, chunk_lists,
                   chunk_replies, parser_vars, comparison_vars, text_vars,
                   chunker_vars, run_vars>>

Next == LoopHead \/ ChunkCall \/ ConsolidationCall

Spec == Init /\ [][Next]_vars

(***************************************************************************)
(* The consolidation of an accumulated list of up to MaxRecords records    *)
(***************************************************************************)
NumCreditors == 3

\* n tagged records of NumCreditors creditors, as chunks of two pages yield
TaggedRecords(n) ==
    [k \in 1..n |-> Rec(((k - 1) % NumCreditors) + 1,
                        PageRange(2 * ((k - 1) \div 50) + 1, 2 * ((k - 1) \div 50) + 2))]

ListSizes ==
    {2, NumCreditors + 1, SMALL_LIST_MAX, SMALL_LIST_MAX + 1,
     2 * batch_size, MaxRecords}

InitConsolidate ==
    /\ pc = "consolidate"
    /\ chunks = <<Chunk(1, 2, 2)>>
    /\ idx = 1
    /\ \E n \in ListSizes : /\ all_creditors = TaggedRecords(n)
                            /\ cons = ConsStart(JList(TaggedRecords(n)))
    /\ progress = <<CallbackArgs(0)>>
    /\ calls = <<"extract">>
    /\ result = NoResult
    /\ error = ""
    /\ chunk_lists = <<>>
    /\ last_batch = NoBatch
    /\ reply_log = <<>>
    /\ chunk_replies = <<>>
    /\ ParserIdle
    /\ ComparisonIdle
    /\ TextIdle
    /\ ChunkerIdle
    /\ RunIdle

NextConsolidate == ConsolidationCall

SpecConsolidate == InitConsolidate /\ [][NextConsolidate]_vars

(***************************************************************************)
(* Properties of extract_creditors_from_chunks and of the consolidation    *)
(***************************************************************************)
\* the creditor of record c has a record in the list records
Represented(c, records) ==
    /\ records.ty = "list"
    /\ \E k \in 1..Len(records.v) :
          /\ IsDict(records.v[k])
          /\ SameCreditor(pop_source_pages(records.v[k]), pop_source_pages(c))

\* C1: every creditor of the accumulated list handed to the consolidation
\* still has a record in the list the consolidation returns, whatever the
\* service answered.
C1_NoUniqueCreditorLost ==
    (pc = "done" /\ cons.ncalls > 0 /\ ReplyClass(last_batch.out) = "records") =>
        \A k \in 1..Len(all_creditors) : Represented(all_creditors[k], result.records)

ExpectedCalls(n) == IF n <= 150 THEN 1 ELSE 2 * ((n + 99) \div 100) - 1

AllReplies(classes) == \A k \in 1..Len(reply_log) : reply_log[k] \in classes

ParsedEmpty(out) ==
    /\ ~out.raises
    /\ HasLen(parse_ai_response(out.content))
    /\ PyLen(parse_ai_response(out.content)) = 0

\* the batch call returned its input batch: same records, same order, same
\* number, none of them with the provenance field
ReturnedOriginalBatch(b) ==
    /\ ~b.raised
    /\ b.val.ty = "list"
    /\ Len(b.val.v) = Len(b.input.v)
    /\ Len(b.val.v) > 0
    /\ \A k \in 1..Len(b.val.v) :
          /\ ~has_source_pages(b.val.v[k])
          /\ b.val.v[k] = pop_source_pages(b.input.v[k])

RaisedInside(out) ==
    \/ out.raises
    \/ Truthy(parse_ai_response(out.content)) /\ ~HasLen(parse_ai_response(out.content))

C6_NoProvenanceInResult ==
    pc = "done" =>
        \A k \in 1..Len(Iterate(result.records).items) :
            ~has_source_pages(Iterate(result.records).items[k])

\* C9: a call over K chunks that returns has invoked the progress callback
\* K times, the k-th time with (k - 1, K, start page, end page of chunk k).
C9_ProgressCallbacks ==
    pc = "done" =>
        progress = [k \in 1..Len(chunks) |->
                       <<k - 1, Len(chunks), chunks[k].start_page, chunks[k].end_page>>]

C9_Witness == pc = "done" /\ Len(chunks) >= 2 /\ Len(progress) >= 2

\* the value of the provenance field of a dict
SourcePagesOf(c) ==
    IF c.ty = "rec" THEN JStr(c.s)
    ELSE LET k == CHOOSE k \in 1..Len(c.v) : c.v[k].v[1] = SOURCE_PAGES IN c.v[k].v[2]

RECURSIVE RecordsBefore(_)
\* the number of records the chunks before chunk k produced
RecordsBefore(k) ==
    IF k <= 1 THEN 0 ELSE RecordsBefore(k - 1) + Len(chunk_lists[k - 1])

\* C10: the list handed to the consolidation is the concatenation, in chunk
\* order, of the records parsed from each chunk's answer, each with the
\* provenance field set to "<start>-<end>" of its chunk.
C10_ProvenanceTagging ==
    pc = "consolidate" =>
        /\ cons.creditors = JList(all_creditors)
        /\ Len(chunk_lists) = Len(chunks)
        /\ Len(all_creditors) = RecordsBefore(Len(chunks) + 1)
        /\ \A k \in 1..Len(chunks) : \A j \in 1..Len(chunk_lists[k]) :
              LET c == all_creditors[RecordsBefore(k) + j] IN
              /\ has_source_pages(c)
              /\ SourcePagesOf(c)
                    = JStr(PageRange(chunks[k].start_page, chunks[k].end_page))
              /\ pop_source_pages(c) = pop_source_pages(chunk_lists[k][j])

C10_Witness ==
    /\ pc = "consolidate"
    /\ cons.ncalls = 0
    /\ Len(chunks) >= 2
    /\ Len(chunk_lists[1]) >= 1
    /\ Len(chunk_lists[2]) >= 1
    /\ \E j \in 1..Len(chunk_lists[2]) : has_source_pages(chunk_lists[2][j])

\* C14: an empty response body for any chunk makes
\* extract_creditors_from_chunks fail with an extraction error.
C14_EmptyChunkResponseFails ==
    \A k \in 1..Len(chunk_replies) :
        (~chunk_replies[k].raises /\ chunk_replies[k].content = <<>>) =>
            /\ pc = "failed"
            /\ k = Len(chunk_replies)

\* C28: the callback for chunk i is invoked before the call for chunk i and
\* after the call for chunk i-1 has returned: between two calls there is
\* exactly one callback, at the call for chunk i the callbacks 0..i have
\* been invoked, and when the call for chunk j raises the callback has been
\* invoked j+1 times and is not invoked again.
C28_CallbackBeforeCall ==
    /\ Len(progress) = Len(chunk_replies) + (IF pc = "call" THEN 1 ELSE 0)
    /\ \A k \in 1..Len(progress) : progress[k][1] = k - 1
    /\ pc = "call" => progress[Len(progress)][1] = idx
    /\ \A j \in 0..(Len(chunk_replies) - 1) :
          chunk_replies[j + 1].raises =>
              /\ pc = "failed"
              /\ j + 1 = Len(chunk_replies)
              /\ Len(progress) = j + 1

C28_Witness ==
    /\ pc = "failed"
    /\ Len(chunks) = 3
    /\ Len(chunk_replies) = 2
    /\ chunk_replies[2].raises
    /\ progress = <<CallbackArgs(0), CallbackArgs(1)>>

\* the number of records the chunks contributed
RECURSIVE SumLen(_)
SumLen(lists) == IF lists = <<>> THEN 0 ELSE Len(Head(lists)) + SumLen(Tail(lists))

\* C17: the count returned is the sum of the per-chunk record counts; a sum
\* of 0 returns ([], 0) without a consolidation call, a sum above 0 returns
\* the value of the consolidation of the accumulated records.
C17_ConsolidateOnlyNonEmpty ==
    pc = "done" =>
        /\ result.count = SumLen(chunk_lists)
        /\ result.count = Len(all_creditors)
        /\ result.count = 0 =>
              /\ cons.ncalls = 0
              /\ \A k \in 1..Len(calls) : calls[k] # "consolidate"
              /\ result.records = JList(<<>>)
        /\ result.count > 0 =>
              /\ cons.creditors = JList(all_creditors)
              /\ cons.ncalls > 0
              /\ cons.status = "returned"
              /\ result.records = cons.ret

C17_Witness ==
    /\ pc = "done"
    /\ Len(chunk_lists) = 2
    /\ Len(chunk_lists[1]) = 2
    /\ Len(chunk_lists[2]) = 1
    /\ result.count = 3
    /\ result.records.ty = "list"
    /\ Len(result.records.v) = 2

\* every consolidation call so far raised or answered nothing parseable
OnlyFailedReplies ==
    \A k \in 1..Len(reply_log) : reply_log[k] \in {"raise", "unparseable"}

\* C18: after the chunk loop, no consolidation call makes
\* extract_creditors_from_chunks fail; it returns a value with a length and
\* the pre-consolidation count, and when every consolidation call raised or
\* answered an empty or unparseable body, the accumulated records themselves.
C18_ConsolidationFailuresAbsorbed ==
    cons.ncalls > 0 =>
        /\ pc \in {"consolidate", "done"}
        /\ error = ""
        /\ pc = "done" =>
              /\ result.count = Len(all_creditors)
              /\ HasLen(result.records)
              /\ OnlyFailedReplies =>
                    result.records = JList(StripAll(all_creditors))

C18_Witness ==
    /\ pc = "done"
    /\ Len(all_creditors) > SMALL_LIST_MAX
    /\ cons.ncalls = ExpectedCalls(Len(all_creditors))
    /\ OnlyFailedReplies
    /\ \E k \in 1..Len(reply_log) : reply_log[k] = "raise"
    /\ \E k \in 1..Len(reply_log) : reply_log[k] = "unparseable"
    /\ result.records = JList(StripAll(all_creditors))

\* the consolidation is over more than 150 records (the batched path)
Batched == Len(cons.creditors.v) > SMALL_LIST_MAX

\* in a state where the consolidation has returned: the last call ended in
\* the handler of lines 175-180, because the batch call itself raised or
\* because its value could not be added to the running total
FellBack ==
    \/ last_batch.raised
    \/ /\ cons.phase = "batch"
       /\ Truthy(cons.consolidated_result)
       /\ py_add(cons.consolidated_result, last_batch.val).raised

\* the batches are consecutive slices of 100 and every call about a batch
\* after the first is followed by a call about the running total followed
\* by that batch's output, whose value is the new running total
FoldSteps ==
    /\ cons.i % batch_size = 0
    /\ cons.i < Len(cons.creditors.v)
    /\ (cons.status = "running" /\ cons.phase = "batch") =>
          /\ cons.i = batch_size * ((cons.ncalls + 1) \div 2)
          /\ ConsInput(cons)
                 = JList(SubSeq(cons.creditors.v, cons.i + 1,
                                Min(cons.i + batch_size, Len(cons.creditors.v))))
          /\ cons.ncalls > 0 => cons.consolidated_result = last_batch.val
    /\ (cons.status = "running" /\ cons.phase = "fold") =>
          /\ cons.i = batch_size * (cons.ncalls \div 2)
          /\ cons.i >= batch_size
          /\ last_batch.input = BatchAt(cons.creditors, cons.i)
          /\ (cons.consolidated_result.ty = "list" /\ last_batch.val.ty = "list") =>
                cons.combined
                    = JList(cons.consolidated_result.v \o last_batch.val.v)
          /\ ConsInput(cons) = cons.combined

\* the value returned is the running total after the fold of the last batch
ReturnsRunningTotal ==
    /\ cons.phase = "fold"
    /\ cons.i + batch_size >= Len(cons.creditors.v)
    /\ cons.ncalls = ExpectedCalls(Len(cons.creditors.v))
    /\ cons.ret = cons.consolidated_result
    /\ cons.ret = last_batch.val

C27_WholeListFallback ==
    /\ cons.status # "raised"
    /\ (Batched /\ cons.status = "returned" /\ FellBack) =>
          cons.ret = JList(StripAll(cons.creditors.v))

C27_Witness ==
    /\ Batched
    /\ cons.status = "returned"
    /\ ~last_batch.raised
    /\ FellBack
    /\ cons.consolidated_result.ty = "list"
    /\ Len(cons.consolidated_result.v) < batch_size
    /\ cons.ret = JList(StripAll(cons.creditors.v))

(***************************************************************************)
(* The response parsers on their own: one response text, drawn from every  *)
(* text of at most MaxLen lexemes and from serialized arrays in fences      *)
(***************************************************************************)
Alphabet ==
    {LB, RB, LC, RC, COMMA, FENCE, JSONTAG, WS, PROSE, QUOTE,
     Rec(1, NoPages), JNum(5)}

\* two numbers side by side would read as one number
WellLexed(s) == \A i \in 1..(Len(s) - 1) : ~(s[i].ty = "num" /\ s[i + 1].ty = "num")

Texts == {s \in UNION {[1..k -> Alphabet] : k \in 0..MaxLen} : WellLexed(s)}

ArrayItems ==
    {Rec(1, NoPages), Rec(2, "1-2"), JNum(5), JNull, JQStr(<<FENCE>>),
     JQStr(<<RB>>), JQStr(<<LB, PROSE>>), JList(<<JNum(5)>>), JObj(<<>>),
     JObj(<<JPair(JStr("k"), JList(<<>>))>>)}

Arrays == {JList(a) : a \in UNION {[1..k -> ArrayItems] : k \in 0..MaxArrayLen}}

NumWrappers == 7

\* a text in no fence, in one fence (with or without the json tag, with or
\* without prose around it), or in nested fences
Wrap(w, s) ==
    CASE w = 1 -> s
      [] w = 2 -> <<FENCE>> \o s \o <<FENCE>>
      [] w = 3 -> <<FENCE, JSONTAG, WS>> \o s \o <<WS, FENCE>>
      [] w = 4 -> <<PROSE, WS, FENCE, WS>> \o s \o <<WS, FENCE, WS, PROSE>>
      [] w = 5 -> <<FENCE, JSONTAG, WS, FENCE, JSONTAG, WS>> \o s \o <<WS, FENCE, WS, FENCE>>
      [] w = 6 -> <<FENCE, WS, FENCE>> \o s \o <<FENCE, FENCE>>
      [] OTHER -> <<FENCE, PROSE, WS, FENCE, JSONTAG>> \o s \o <<FENCE, WS, FENCE, WS>>

ExtractionIdle ==
    /\ pc = "idle"
    /\ chunks = <<>>
    /\ idx = 0
    /\ all_creditors = <<>>
    /\ progress = <<>>
    /\ calls = <<>>
    /\ cons = ConsStart(JList(<<>>))
    /\ result = NoResult
    /\ error = ""
    /\ chunk_lists = <<>>
    /\ last_batch = NoBatch
    /\ reply_log = <<>>
    /\ chunk_replies = <<>>

\* texts in which the bracket span is not the value of the text: an object
\* that holds an array, bare, in a fence and after an opening fence, and a
\* string that holds brackets
OrderTexts ==
    LET object == json_dumps(JObj(<<JPair(JStr("k"), JList(<<>>))>>)) IN
    { object,
      <<FENCE>> \o object \o <<FENCE>>,
      <<FENCE, JSONTAG, WS>> \o object,
      <<QUOTE, LB, RB, QUOTE>> }

InitParser ==
    /\ \/ response \in Texts \cup OrderTexts /\ origin = JNull
       \/ \E a \in Arrays, w \in 1..NumWrappers :
             response = Wrap(w, json_dumps(a)) /\ origin = a
    /\ parser_done = {}
    /\ parsed_array = JNull
    /\ parsed_object = JNull
    /\ ExtractionIdle
    /\ ComparisonIdle
    /\ TextIdle
    /\ ChunkerIdle
    /\ RunIdle

\* _parse_ai_response(response)
ParseArray ==
    /\ "array" \notin parser_done
    /\ parsed_array' = parse_ai_response(response)
    /\ parser_done' = parser_done \cup {"array"}
    /\ UNCHANGED <<response, origin, parsed_object, extraction_vars,
                   comparison_vars, text_vars, chunker_vars, run_vars>>

\* _parse_comparison_response(response)
ParseObject ==
    /\ "object" \notin parser_done
    /\ parsed_object' = parse_comparison_response(response)
    /\ parser_done' = parser_done \cup {"object"}
    /\ UNCHANGED <<response, origin, parsed_array, extraction_vars,
                   comparison_vars, text_vars, chunker_vars, run_vars>>

NextParser == ParseArray \/ ParseObject

SpecParser == InitParser /\ [][NextParser]_vars

\* d.get(key), for a key that is present
dict_get(d, key) ==
    LET k == CHOOSE k \in 1..Len(d.v) : d.v[k].v[1] = key IN d.v[k].v[2]

dict_has(d, key) == d.ty = "obj" /\ \E k \in 1..Len(d.v) : d.v[k].v[1] = key

NoArrayStrategy(s) ==
    /\ ~json_loads(s).ok
    /\ ~(code_block_search(s).found /\ json_loads(code_block_search(s).group).ok)
    /\ ~(array_pattern_search(s).found /\ json_loads(array_pattern_search(s).group).ok)
    /\ ~json_loads(clean_response(s)).ok

NoObjectStrategy(s) ==
    /\ ~json_loads(s).ok
    /\ ~(code_block_search(s).found /\ json_loads(code_block_search(s).group).ok)
    /\ ~(object_pattern_search(s).found /\ json_loads(object_pattern_search(s).group).ok)

\* the four classification lists are empty and the six counts are 0
AllZeroComparison(d) ==
    /\ d.ty = "obj"
    /\ Len(d.v) = 5
    /\ \A k \in 1..4 : dict_has(d, JStr(BucketKeys[k]))
                       /\ dict_get(d, JStr(BucketKeys[k])) = JList(<<>>)
    /\ dict_has(d, JStr("summary"))
    /\ Len(dict_get(d, JStr("summary")).v) = 6
    /\ \A k \in 1..6 : dict_has(dict_get(d, JStr("summary")), JStr(SummaryKeys[k]))
                       /\ dict_get(dict_get(d, JStr("summary")), JStr(SummaryKeys[k])) = JNum(0)

C8_ParserRoundTrip ==
    (origin # JNull /\ "array" \in parser_done) => parsed_array = origin

C8_Witness ==
    /\ origin # JNull
    /\ "array" \in parser_done
    /\ Len(origin.v) = 2
    /\ origin.v[1].ty = "str"
    /\ Len(SelectSeq(response, LAMBDA x : x.ty = "fence")) >= 5
    /\ parsed_array = origin

\* C22: the array parser returns the value of the first strategy that
\* succeeds in the order whole string, first fenced block, greedy '[' ... ']'
\* span, cleaned string; a later success never replaces an earlier one.
C22_StrategyOrder ==
    "array" \in parser_done =>
        /\ Strategy1(response).ok => parsed_array = Strategy1(response).val
        /\ (~Strategy1(response).ok /\ Strategy2(response).ok) =>
              parsed_array = Strategy2(response).val
        /\ (~Strategy1(response).ok /\ ~Strategy2(response).ok
              /\ Strategy3Array(response).ok) =>
              parsed_array = Strategy3Array(response).val
        /\ (~Strategy1(response).ok /\ ~Strategy2(response).ok
              /\ ~Strategy3Array(response).ok /\ Strategy4(response).ok) =>
              parsed_array = Strategy4(response).val

C22_Witness ==
    /\ "array" \in parser_done
    /\ ~Strategy1(response).ok
    /\ Strategy2(response).ok
    /\ Strategy3Array(response).ok
    /\ Strategy3Array(response).val # Strategy2(response).val
    /\ parsed_array = Strategy2(response).val

\* C23: the object parser returns the default object only after the cleaned
\* string (strategy 4) has failed to parse as well.
C23_ObjectParserFourStrategies ==
    ("object" \in parser_done /\ NoObjectStrategy(response)
        /\ Strategy4(response).ok) =>
        parsed_object = Strategy4(response).val

\* C26: the array parser returns a list for every text.
C26_ArrayParserReturnsList ==
    "array" \in parser_done => parsed_array.ty = "list"

(***************************************************************************)
(* AIAnalyzer.extract_creditors: one service call on the text of a whole   *)
(* document                                                                *)
(***************************************************************************)
\* the message of the ValueError of line 53
EmptyResponse == "A resposta da IA estava vazia"

\* the message of the TypeError len() raises
NoLen == "object has no len()"

\* what the service may answer to the extraction prompt of a whole text
TextReplies ==
    {Raises} \cup ExtractionReplies \cup {Content(s) : s \in Texts}

InitText ==
    /\ txt_pc = "ready"
    /\ txt_reply = Raises
    /\ txt_result = NoResult
    /\ txt_error = ""
    /\ ExtractionIdle
    /\ ParserIdle
    /\ ComparisonIdle
    /\ ChunkerIdle
    /\ RunIdle

\* variant: an empty response counts as no creditors
extract_creditors_lenient(out) ==
    IF out.raises
    THEN [raised |-> TRUE, cause |-> ServiceError, val |-> NoResult]
    ELSE LET finish(creditors) ==
                 IF HasLen(creditors)
                 THEN [raised |-> FALSE, cause |-> "",
                       val |-> [records |-> creditors, count |-> PyLen(creditors)]]
                 ELSE [raised |-> TRUE, cause |-> NoLen, val |-> NoResult]
         IN finish(parse_ai_response(out.content))

\* variant: a response no strategy parses is an error
extract_creditors_strict(out) ==
    IF out.raises
    THEN [raised |-> TRUE, cause |-> ServiceError, val |-> NoResult]
    ELSE IF out.content = <<>> \/ NoArrayStrategy(out.content)
    THEN [raised |-> TRUE, cause |-> EmptyResponse, val |-> NoResult]
    ELSE LET finish(creditors) ==
                 IF HasLen(creditors)
                 THEN [raised |-> FALSE, cause |-> "",
                       val |-> [records |-> creditors, count |-> PyLen(creditors)]]
                 ELSE [raised |-> TRUE, cause |-> NoLen, val |-> NoResult]
         IN finish(parse_ai_response(out.content))

\* the body of the try of extract_creditors for the service outcome out:
\* the pair returned, or the cause of the exception caught at line 64
extract_creditors(out) ==
    IF out.raises
    THEN [raised |-> TRUE, cause |-> ServiceError, val |-> NoResult]
    ELSE IF out.content = <<>>                                      \* line 52
    THEN [raised |-> TRUE, cause |-> EmptyResponse, val |-> NoResult]
    ELSE LET finish(creditors) ==                                   \* lines 59-62
                 IF HasLen(creditors)
                 THEN [raised |-> FALSE, cause |-> "",
                       val |-> [records |-> creditors, count |-> PyLen(creditors)]]
                 ELSE [raised |-> TRUE, cause |-> NoLen, val |-> NoResult]
         IN finish(parse_ai_response(out.content))

\* extract_creditors from its service call to its return or its exception
ExtractCall ==
    /\ txt_pc = "ready"
    /\ \E out \in TextReplies :
         LET step(r) ==
                 /\ txt_reply' = out
                 /\ txt_pc' = IF r.raised THEN "failed" ELSE "done"
                 /\ txt_result' = r.val
                 /\ txt_error' = IF r.raised
                                 THEN ErrorMessage("Erro na análise com IA", r.cause)
                                 ELSE ""
         IN step(extract_creditors(out))
    /\ UNCHANGED <<extraction_vars, parser_vars, comparison_vars, chunker_vars,
                   run_vars>>

NextText == ExtractCall

SpecText == InitText /\ [][NextText]_vars

\* C12: when the service call raises or the content is empty,
\* extract_creditors raises "Erro na análise com IA: <cause>" and returns no
\* list.
C12_ExtractFailure ==
    txt_pc \in {"done", "failed"} =>
        /\ txt_reply.raises =>
              /\ txt_pc = "failed"
              /\ txt_error = "Erro na análise com IA: " \o ServiceError
              /\ txt_result = NoResult
        /\ (~txt_reply.raises /\ txt_reply.content = <<>>) =>
              /\ txt_pc = "failed"
              /\ txt_error = "Erro na análise com IA: " \o EmptyResponse
              /\ txt_result = NoResult

C12_Witness ==
    /\ txt_pc = "failed"
    /\ ~txt_reply.raises
    /\ txt_reply.content = <<>>
    /\ txt_result = NoResult

\* C13: a non-empty response no strategy parses gives ([], 0) without an
\* exception, and every returned count is the length of the returned list.
C13_ExtractParseDegradation ==
    /\ (txt_pc \in {"done", "failed"} /\ ~txt_reply.raises
          /\ txt_reply.content # <<>> /\ NoArrayStrategy(txt_reply.content)) =>
            /\ txt_pc = "done"
            /\ txt_error = ""
            /\ txt_result = [records |-> JList(<<>>), count |-> 0]
    /\ txt_pc = "done" =>
            /\ HasLen(txt_result.records)
            /\ txt_result.count = PyLen(txt_result.records)

C13_Witness ==
    /\ txt_pc = "done"
    /\ txt_reply.content = <<PROSE, WS, LB>>
    /\ txt_result = [records |-> JList(<<>>), count |-> 0]

(***************************************************************************)
(* PDFProcessor.extract_text_in_chunks, one step per iteration of the      *)
(* loop over the chunks, first with pdfplumber and then, when pdfplumber   *)
(* raised or gave no chunk, with PyPDF2.                                   *)
(*                                                                         *)
(* A page is what each library's extract_text returns for it: "text", "ws" *)
(* (white space only) or "none" (None or the empty string).  A library may *)
(* raise at one page (fails_at, 0 for never).                              *)
(***************************************************************************)
Documents ==
    UNION { [pages : [1..total ->
                         { [plumber |-> "text", pypdf |-> "text"],
                           [plumber |-> "ws", pypdf |-> "ws"],
                           [plumber |-> "none", pypdf |-> "none"],
                           [plumber |-> "none", pypdf |-> "text"] }],
             pages_per_chunk : 1..MaxPagesPerChunk,
             plumber_fails_at : 0..total,
             pypdf_fails_at : 0..total] : total \in 0..MaxPages }

\* the pages of start_page + 1 .. end_page whose text is appended to
\* chunk_text ("if page_text:")
TextPages(kinds, start_page, end_page) ==
    SelectSeq([k \in 1..(end_page - start_page) |-> start_page + k],
              LAMBDA n : kinds[n] # "none")

\* the dict appended for the chunk that starts at the 0-based start_page
TextChunk(kinds, start_page, end_page, total_pages) ==
    [start_page |-> start_page + 1, end_page |-> end_page,
     total_pages |-> total_pages,
     text |-> TextPages(kinds, start_page, end_page)]

InitChunker ==
    /\ pdf \in Documents
    /\ chk_pc = "plumber"
    /\ chk_start = 0
    /\ chk_chunks = <<>>
    /\ chk_error = ""
    /\ ExtractionIdle
    /\ ParserIdle
    /\ ComparisonIdle
    /\ TextIdle
    /\ RunIdle

\* if chunk_text.strip(), lines 103 and 133: some page of the chunk has
\* text that is not white space
KeepChunk(kinds, text_pages) ==
    \E k \in 1..Len(text_pages) : kinds[text_pages[k]] = "text"

\* one iteration of "for start_page in range(0, total_pages, pages_per_chunk)"
\* over the pages as one library reads them; failed is TRUE when a page of
\* the chunk raises
ChunkStep(kinds, fails_at) ==
    LET total_pages == Len(pdf.pages)
        end_page == Min(chk_start + pdf.pages_per_chunk, total_pages)
        text_pages == TextPages(kinds, chk_start, end_page)
    IN [failed |-> fails_at \in (chk_start + 1)..end_page,
        chunks |-> IF KeepChunk(kinds, text_pages)
                   THEN Append(chk_chunks,
                               TextChunk(kinds, chk_start, end_page, total_pages))
                   ELSE chk_chunks,
        next |-> chk_start + pdf.pages_per_chunk]

PlumberKinds == [n \in 1..Len(pdf.pages) |-> pdf.pages[n].plumber]

PyPDFKinds == [n \in 1..Len(pdf.pages) |-> pdf.pages[n].pypdf]

\* lines 94-110: the loop with pdfplumber; an exception leaves the chunks
\* appended so far in the list and goes on with PyPDF2 (line 116)
PlumberChunk ==
    /\ chk_pc = "plumber"
    /\ chk_start < Len(pdf.pages)
    /\ LET step(r) ==
               IF r.failed
               THEN /\ chk_pc' = "pypdf"
                    /\ chk_start' = 0
                    /\ UNCHANGED chk_chunks
               ELSE /\ chk_start' = r.next
                    /\ chk_chunks' = r.chunks
                    /\ UNCHANGED chk_pc
       IN step(ChunkStep(PlumberKinds, pdf.plumber_fails_at))
    /\ UNCHANGED <<pdf, chk_error, extraction_vars, parser_vars,
                   comparison_vars, text_vars, run_vars>>

\* lines 112-114: return the chunks if there are any, otherwise PyPDF2
PlumberEnd ==
    /\ chk_pc = "plumber"
    /\ chk_start >= Len(pdf.pages)
    /\ IF chk_chunks # <<>>
       THEN chk_pc' = "returned" /\ UNCHANGED chk_start
       ELSE chk_pc' = "pypdf" /\ chk_start' = 0
    /\ UNCHANGED <<pdf, chk_chunks, chk_error, extraction_vars, parser_vars,
                   comparison_vars, text_vars, run_vars>>

ChunkerFailure ==
    ErrorMessage("Erro ao processar PDF em blocos",
                 "Não foi possível extrair texto em blocos do PDF")

\* lines 124-140: the loop with PyPDF2; an exception ends in line 149
PyPDFChunk ==
    /\ chk_pc = "pypdf"
    /\ chk_start < Len(pdf.pages)
    /\ LET step(r) ==
               IF r.failed
               THEN /\ chk_pc' = "raised"
                    /\ chk_error' = ChunkerFailure
                    /\ UNCHANGED <<chk_start, chk_chunks>>
               ELSE /\ chk_start' = r.next
                    /\ chk_chunks' = r.chunks
                    /\ UNCHANGED <<chk_pc, chk_error>>
       IN step(ChunkStep(PyPDFKinds, pdf.pypdf_fails_at))
    /\ UNCHANGED <<pdf, extraction_vars, parser_vars, comparison_vars,
                   text_vars, run_vars>>

\* lines 142-149: return the chunks if there are any, otherwise raise
PyPDFEnd ==
    /\ chk_pc = "pypdf"
    /\ chk_start >= Len(pdf.pages)
    /\ IF chk_chunks # <<>>
       THEN chk_pc' = "returned" /\ UNCHANGED chk_error
       ELSE chk_pc' = "raised" /\ chk_error' = ChunkerFailure
    /\ UNCHANGED <<pdf, chk_start, chk_chunks, extraction_vars, parser_vars,
                   comparison_vars, text_vars, run_vars>>

NextChunker == PlumberChunk \/ PlumberEnd \/ PyPDFChunk \/ PyPDFEnd

SpecChunker == InitChunker /\ [][NextChunker]_vars

\* C20: the chunks returned are in increasing page order with 1-based start
\* pages, span at most pages_per_chunk pages each, are contiguous and cover
\* pages 1..P; a page that yields no text adds nothing to its chunk.
C20_ChunkingContract ==
    chk_pc = "returned" =>
        /\ chk_chunks # <<>>
        /\ chk_chunks[1].start_page = 1
        /\ chk_chunks[Len(chk_chunks)].end_page = Len(pdf.pages)
        /\ \A k \in 1..Len(chk_chunks) :
              /\ chk_chunks[k].start_page <= chk_chunks[k].end_page
              /\ chk_chunks[k].end_page - chk_chunks[k].start_page + 1
                     <= pdf.pages_per_chunk
              /\ chk_chunks[k].total_pages = Len(pdf.pages)
              /\ \A j \in 1..Len(chk_chunks[k].text) :
                    /\ chk_chunks[k].text[j] \in
                           chk_chunks[k].start_page..chk_chunks[k].end_page
                    /\ {pdf.pages[chk_chunks[k].text[j]].plumber,
                        pdf.pages[chk_chunks[k].text[j]].pypdf} # {"none"}
        /\ \A k \in 1..(Len(chk_chunks) - 1) :
              chk_chunks[k + 1].start_page = chk_chunks[k].end_page + 1

\* C25: in every list the chunker returns, no page number lies in the page
\* range of two chunks, also when pdfplumber raised after it had produced
\* chunks and PyPDF2 read the document again from the first page.
C25_NoPageTwice ==
    chk_pc = "returned" =>
        \A k, j \in 1..Len(chk_chunks) :
            k # j =>
                (chk_chunks[k].start_page..chk_chunks[k].end_page)
                    \cap (chk_chunks[j].start_page..chk_chunks[j].end_page) = {}

(***************************************************************************)
(* AIAnalyzer.compare_creditors_with_ai                                    *)
(***************************************************************************)
CreditorRecords == {Rec(1, NoPages), Rec(2, NoPages), Rec(2, "1-2")}

\* lists of at most MaxListLen records of distinct creditors
RecordLists ==
    {l \in UNION {[1..k -> CreditorRecords] : k \in 0..MaxListLen} :
        \A i, j \in 1..Len(l) : i # j => ~SameCreditor(l[i], l[j])}

HasCreditor(records, c) == \E k \in 1..Len(records) : SameCreditor(records[k], c)

HasSame(records, c) == \E k \in 1..Len(records) : records[k] = c

ModifiedEntry(c) ==
    JObj(<<JPair(JStr("creditor"), c), JPair(JStr("confidence_score"), JNum(1))>>)

\* the JSON object of the comparison prompt's output format
Answer(new, removed, modified, unchanged, counts) ==
    JObj(<< JPair(JStr("new_creditors"), JList(new)),
            JPair(JStr("removed_creditors"), JList(removed)),
            JPair(JStr("modified_creditors"), JList(modified)),
            JPair(JStr("unchanged_creditors"), JList(unchanged)),
            JPair(JStr("summary"),
                  JObj([k \in 1..6 |-> JPair(JStr(SummaryKeys[k]), JNum(counts[k]))])) >>)

\* answers to a comparison prompt about old and new
ComparisonReplies(old, new) ==
    LET added == SelectSeq(new, LAMBDA c : ~HasCreditor(old, c))
        removed == SelectSeq(old, LAMBDA c : ~HasCreditor(new, c))
        unchanged == SelectSeq(new, LAMBDA c : HasSame(old, c))
        changed == SelectSeq(new, LAMBDA c : HasCreditor(old, c) /\ ~HasSame(old, c))
        modified == [k \in 1..Len(changed) |-> ModifiedEntry(changed[k])]
        counts == <<Len(old), Len(new), Len(added), Len(removed),
                    Len(modified), Len(unchanged)>>
    IN { Raises,
         Content(<<>>),
         Content(<<PROSE>>),
         Content(<<LB, RB>>),
         Content(json_dumps(Answer(added, removed, modified, unchanged, counts))),
         Content(Fenced(json_dumps(Answer(added, removed, modified, unchanged, counts)))),
         Content(json_dumps(Answer(added, <<>>, <<>>, unchanged, counts))),
         Content(json_dumps(Answer(new, removed, modified, unchanged, counts))),
         Content(json_dumps(Answer(<<>>, <<>>, <<>>, <<>>, <<0, 0, 0, 0, 0, 0>>))) }

InitCompare ==
    /\ cmp_pc = "ready"
    /\ old_creditors \in RecordLists
    /\ new_creditors \in RecordLists
    /\ comparison = JNull
    /\ cmp_error = ""
    /\ cmp_reply = Raises
    /\ cmp_calls = 0
    /\ ExtractionIdle
    /\ ParserIdle
    /\ TextIdle
    /\ ChunkerIdle
    /\ RunIdle

\* the message of the ValueError of line 281
EmptyComparison == "A resposta da IA (comparação) estava vazia"

\* variant: an empty response is asked for once more
CompareAttempts_retry(out) == IF ~out.raises /\ out.content = <<>> THEN 2 ELSE 1

\* fal_client.run is called once, lines 268-276
CompareAttempts(out) == 1

\* the one service call of compare_creditors_with_ai and its outcome
CompareCall ==
    /\ cmp_pc = "ready"
    /\ \E out \in ComparisonReplies(old_creditors, new_creditors) :
         /\ cmp_reply' = out
         /\ cmp_calls' = cmp_calls + CompareAttempts(out)
         /\ IF out.raises \/ out.content = <<>>
            THEN /\ cmp_pc' = "failed"
                 /\ cmp_error' = ErrorMessage("Erro na comparação com IA",
                                       IF out.raises THEN ServiceError
                                       ELSE EmptyComparison)
                 /\ UNCHANGED comparison
            ELSE /\ cmp_pc' = "done"
                 /\ comparison' = parse_comparison_response(out.content)
                 /\ UNCHANGED cmp_error
    /\ UNCHANGED <<old_creditors, new_creditors, extraction_vars, parser_vars,
                   text_vars, chunker_vars, run_vars>>

NextCompare == CompareCall

SpecCompare == InitCompare /\ [][NextCompare]_vars

\* the records of a classification list of d (none when the key is missing
\* or its value is not a list)
Bucket(d, key) ==
    IF dict_has(d, JStr(key)) /\ dict_get(d, JStr(key)).ty = "list"
    THEN dict_get(d, JStr(key)).v
    ELSE <<>>

\* the current records of the entries of modified_creditors
ModifiedRecords(d) ==
    LET entries == SelectSeq(Bucket(d, "modified_creditors"),
                             LAMBDA e : dict_has(e, JStr("creditor")))
    IN [k \in 1..Len(entries) |-> dict_get(entries[k], JStr("creditor"))]

\* in how many places of the four classifications creditor c appears
Occurrences(d, c) ==
    LET all == Bucket(d, "new_creditors") \o Bucket(d, "removed_creditors")
               \o ModifiedRecords(d) \o Bucket(d, "unchanged_creditors")
    IN Len(SelectSeq(all, LAMBDA x : SameCreditor(x, c)))

\* C2: every record of old and of new is in exactly one of the four
\* classifications of the result compare returns.
C2_ComparatorPartition ==
    cmp_pc = "done" =>
        \A k \in 1..Len(old_creditors \o new_creditors) :
            Occurrences(comparison, (old_creditors \o new_creditors)[k]) = 1


\* summary[key] of a comparison result d, or none when d has no such count
SummaryCount(d, key) ==
    IF dict_has(d, JStr("summary")) /\ dict_has(dict_get(d, JStr("summary")), JStr(key))
    THEN dict_get(dict_get(d, JStr("summary")), JStr(key))
    ELSE JNull

\* the classification list d[key], or none when d has no such list
BucketList(d, key) ==
    IF dict_has(d, JStr(key)) THEN dict_get(d, JStr(key)) ELSE JNull

\* C11: in every result compare returns, the four counts of the summary
\* equal the lengths of the four classification lists.
C11_SummaryConsistency ==
    cmp_pc = "done" =>
        \A k \in 1..4 :
            /\ BucketList(comparison, BucketKeys[k]).ty = "list"
            /\ SummaryCount(comparison, SummaryKeys[k + 2])
                   = JNum(Len(BucketList(comparison, BucketKeys[k]).v))

\* C15: compare makes exactly one service call, and when that call raises or
\* its content is empty compare raises "Erro na comparação com IA: <cause>"
\* and returns no result.
C15_ComparatorFailure ==
    cmp_pc \in {"done", "failed"} =>
        /\ cmp_calls = 1
        /\ cmp_reply.raises =>
              /\ cmp_pc = "failed"
              /\ cmp_error = "Erro na comparação com IA: " \o ServiceError
              /\ comparison = JNull
        /\ (~cmp_reply.raises /\ cmp_reply.content = <<>>) =>
              /\ cmp_pc = "failed"
              /\ cmp_error = "Erro na comparação com IA: " \o EmptyComparison
              /\ comparison = JNull

C15_Witness ==
    /\ cmp_pc = "failed"
    /\ ~cmp_reply.raises
    /\ cmp_reply.content = <<>>
    /\ Len(old_creditors) > 0
    /\ cmp_calls = 1

\* C16: a non-empty response that no strategy of the object parser can parse
\* makes compare return, without raising, the result whose four lists are
\* empty and whose six counts are 0.
C16_ComparatorParseDegradation ==
    (cmp_pc \in {"done", "failed"} /\ ~cmp_reply.raises
        /\ cmp_reply.content # <<>> /\ NoObjectStrategy(cmp_reply.content)) =>
        /\ cmp_pc = "done"
        /\ cmp_error = ""
        /\ AllZeroComparison(comparison)

C16_Witness ==
    /\ cmp_pc = "done"
    /\ cmp_reply.content = <<PROSE>>
    /\ Len(old_creditors) > 0
    /\ Len(new_creditors) > 0
    /\ AllZeroComparison(comparison)


(***************************************************************************)
(* process_documents (app.py) with chunking: the old document, then the    *)
(* new document, then the comparison.  Every service call is a blocking    *)
(* call of the one thread of the run, so an action holds a call together   *)
(* with its return.                                                        *)
(***************************************************************************)
\* the chunk lists of a document of MaxPages pages and of a one-page document
RunChunkLists ==
    { ChunksFrom(0, MaxPages, MaxPagesPerChunk, {}), ChunksFrom(0, 1, 1, {}) }

InitRun ==
    /\ run_pc = "old"
    /\ run_log = <<>>
    /\ run_new_chunks \in RunChunkLists
    /\ run_error = ""
    /\ ses_pc = "off"
    /\ SessionStart
    /\ pc = "loop"
    /\ chunks \in RunChunkLists
    /\ idx = 0
    /\ all_creditors = <<>>
    /\ progress = <<>>
    /\ calls = <<>>
    /\ cons = ConsStart(JList(<<>>))
    /\ result = NoResult
    /\ error = ""
    /\ chunk_lists = <<>>
    /\ last_batch = NoBatch
    /\ reply_log = <<>>
    /\ chunk_replies = <<>>
    /\ ParserIdle
    /\ ComparisonIdle
    /\ TextIdle
    /\ ChunkerIdle

\* the state of extract_creditors_from_chunks when it is called on chunks c
\* ("loop"), or when no call of it is active ("idle")
EnterExtraction(at, c) ==
    /\ pc' = at
    /\ chunks' = c
    /\ idx' = 0
    /\ all_creditors' = <<>>
    /\ progress' = <<>>
    /\ calls' = <<>>
    /\ cons' = ConsStart(JList(<<>>))
    /\ result' = NoResult
    /\ error' = ""
    /\ chunk_lists' = <<>>
    /\ last_batch' = NoBatch
    /\ reply_log' = <<>>
    /\ chunk_replies' = <<>>

\* what process_documents has seen of one call of extract(file, name, ...)
RunEntry(doc) ==
    [doc |-> doc, chunks |-> chunks, calls |-> calls, progress |-> progress,
     raised |-> [k \in 1..Len(chunk_replies) |-> chunk_replies[k].raises],
     returned |-> pc = "done", creditors |-> result.records]

\* variant: the comparison follows the first document
AfterDocument_compare(doc) == "compare"

\* lines 241-252: extract(old_file, ...), extract(new_file, ...), compare
AfterDocument(doc) == IF doc = "old" THEN "new" ELSE "compare"

\* extract(...) returns the creditors of a document (line 226); the run goes
\* on with the next document or with the call of compare_creditors_with_ai
RunDocumentDone ==
    /\ run_pc \in {"old", "new"}
    /\ pc = "done"
    /\ run_log' = Append(run_log, RunEntry(run_pc))
    /\ run_pc' = AfterDocument(run_pc)
    /\ IF AfterDocument(run_pc) = "new"
       THEN /\ EnterExtraction("loop", run_new_chunks)
            /\ UNCHANGED comparison_vars
       ELSE /\ EnterExtraction("idle", <<>>)
            /\ cmp_pc' = "ready"
            /\ old_creditors' = DictItems(run_log'[1].creditors)
            /\ new_creditors' = DictItems(run_log'[Len(run_log')].creditors)
            /\ UNCHANGED <<comparison, cmp_error, cmp_reply, cmp_calls>>
    /\ UNCHANGED <<run_new_chunks, run_error, session_state, ses_pc, ses_run,
                   ses_value, ses_last, parser_vars, text_vars, chunker_vars>>

\* variant: after a failure of the old document the run goes on with the
\* new one
RunDocumentFailed_next ==
    /\ run_pc \in {"old", "new"}
    /\ pc = "failed"
    /\ run_log' = Append(run_log, RunEntry(run_pc))
    /\ IF run_pc = "old"
       THEN /\ run_pc' = "new"
            /\ EnterExtraction("loop", run_new_chunks)
            /\ UNCHANGED run_error
       ELSE /\ run_pc' = "failed"
            /\ run_error' = ErrorMessage("Erro no processamento", error)
            /\ EnterExtraction("idle", <<>>)
    /\ UNCHANGED <<run_new_chunks, session_state, ses_pc, ses_run, ses_value,
                   ses_last, parser_vars, comparison_vars, text_vars,
                   chunker_vars>>

\* an exception of extract(...) ends the run in the handler of lines
\* 262-265, which shows "Erro no processamento: <e>"
RunDocumentFailed ==
    /\ run_pc \in {"old", "new"}
    /\ pc = "failed"
    /\ run_log' = Append(run_log, RunEntry(run_pc))
    /\ run_pc' = "failed"
    /\ run_error' = ErrorMessage("Erro no processamento", error)
    /\ EnterExtraction("idle", <<>>)
    /\ UNCHANGED <<run_new_chunks, session_state, ses_pc, ses_run, ses_value,
                   ses_last, parser_vars, comparison_vars, text_vars,
                   chunker_vars>>

\* lines 254-265: the result of the comparison is stored, or its exception
\* is shown
RunEnd ==
    /\ run_pc = "compare"
    /\ cmp_pc \in {"done", "failed"}
    /\ run_pc' = IF cmp_pc = "done" THEN "complete" ELSE "failed"
    /\ run_error' = IF cmp_pc = "done" THEN run_error
                    ELSE ErrorMessage("Erro no processamento", cmp_error)
    /\ UNCHANGED <<run_log, run_new_chunks, session_state, ses_pc, ses_run,
                   ses_value, ses_last, extraction_vars, parser_vars,
                   comparison_vars, text_vars, chunker_vars>>

NextRun ==
    \/ LoopHead
    \/ ChunkCall
    \/ ConsolidationCall
    \/ RunDocumentDone
    \/ RunDocumentFailed
    \/ CompareCall
    \/ RunEnd

SpecRun == InitRun /\ [][NextRun]_vars


\* the calls cs of one document are extraction calls, one per chunk of cks
\* from the first chunk on, followed by consolidation calls, which begin
\* only after the call of the last chunk
CallsInOrder(cs, cks) ==
    LET k == Cardinality({j \in 1..Len(cs) : cs[j] = "extract"}) IN
    /\ k <= Len(cks)
    /\ \A j \in 1..Len(cs) : cs[j] = IF j <= k THEN "extract" ELSE "consolidate"
    /\ Len(cs) > k => k = Len(cks)

\* the chunk announced before the j-th extraction call is the j-th chunk,
\* the chunks are in page order, and no chunk is announced before the call
\* of the chunk before it was made
ChunksInOrder(pr, cs, cks) ==
    LET k == Cardinality({j \in 1..Len(cs) : cs[j] = "extract"}) IN
    /\ Len(pr) \in {k, k + 1}
    /\ Len(pr) <= Len(cks)
    /\ \A j \in 1..Len(pr) :
          pr[j] = <<j - 1, Len(cks), cks[j].start_page, cks[j].end_page>>
    /\ \A j \in 1..(Len(cks) - 1) : cks[j].end_page < cks[j + 1].start_page

ExtractionFailureShown ==
    "Erro no processamento: Erro na extração em blocos: " \o ServiceError

\* C24: a raising extraction call or comparison call is not repeated and is
\* the last service call of the run: no call for a later chunk, no
\* consolidation call, no call for the other document and no comparison
\* call follow an extraction call that raised; and the error that reaches
\* the caller ends with the message of the cause.
C24_NoRetryFatal ==
    /\ \A k \in 1..Len(chunk_replies) :
          chunk_replies[k].raises =>
              /\ k = Len(chunk_replies)
              /\ Len(calls) = k
              /\ pc = "failed"
              /\ error = "Erro na extração em blocos: " \o ServiceError
              /\ cmp_calls = 0
    /\ \A n \in 1..Len(run_log) : \A k \in 1..Len(run_log[n].raised) :
          run_log[n].raised[k] =>
              /\ k = Len(run_log[n].raised)
              /\ Len(run_log[n].calls) = k
              /\ ~run_log[n].returned
              /\ n = Len(run_log)
              /\ run_pc = "failed"
              /\ pc = "idle"
              /\ calls = <<>>
              /\ cmp_calls = 0
              /\ run_error = ExtractionFailureShown
    /\ (cmp_calls > 0 /\ cmp_reply.raises) =>
          /\ cmp_calls = 1
          /\ cmp_pc = "failed"
          /\ cmp_error = "Erro na comparação com IA: " \o ServiceError
          /\ run_pc \in {"compare", "failed"}
          /\ pc = "idle"
          /\ calls = <<>>
          /\ run_pc = "failed" =>
                run_error = "Erro no processamento: " \o cmp_error

\* the call for the second chunk of the old document raised: the third
\* chunk, the new document and the comparison were never asked for
C24_Witness ==
    /\ run_pc = "failed"
    /\ Len(run_log) = 1
    /\ Len(run_log[1].chunks) >= 2
    /\ run_log[1].raised = <<FALSE, TRUE>>
    /\ run_log[1].calls = <<"extract", "extract">>
    /\ Len(run_new_chunks) >= 1
    /\ cmp_calls = 0
    /\ run_error = ExtractionFailureShown

(***************************************************************************)
(* The session of app.py over several runs: the two buttons that start a   *)
(* run, the steps of the try block of process_documents and of             *)
(* process_single_document, the mode selector and the "Nova Análise"       *)
(* button. What a library call of a step returns is an input: the step     *)
(* returns or raises.                                                      *)
(***************************************************************************)
\* the number of runs one session starts
MaxRuns == 3

\* variant: only the completion flag is reset
reset_state_flag_only(s, full) ==
    [s EXCEPT !.processing_complete = FALSE,
              !.analysis_mode = IF full THEN "Análise Comparativa" ELSE @]

\* reset_state(full), lines 396-404
reset_state(s, full) ==
    [s EXCEPT !.processing_complete = FALSE,
              !.comparison_results = None,
              !.single_analysis_results = None,
              !.analysis_mode = IF full THEN "Análise Comparativa" ELSE @]

\* lines 170-171 and 193-194: the result the page of the current mode shows
Displayed(s) ==
    IF s.analysis_mode = "Análise Comparativa"
    THEN IF s.processing_complete /\ ~s.comparison_results.empty
         THEN s.comparison_results ELSE None
    ELSE IF s.processing_complete /\ ~s.single_analysis_results.empty
         THEN s.single_analysis_results ELSE None

InitSession ==
    /\ ses_pc = "ready"
    /\ SessionStart
    /\ run_pc = "off"
    /\ run_log = <<>>
    /\ run_new_chunks = <<>>
    /\ run_error = ""
    /\ ExtractionIdle
    /\ ParserIdle
    /\ ComparisonIdle
    /\ TextIdle
    /\ ChunkerIdle

\* the button of the page of the current mode (lines 160-168, 184-191) and
\* the first two statements of process_documents (lines 199-200) or of
\* process_single_document (lines 270-271)
StartRun ==
    /\ ses_pc = "ready"
    /\ ses_run < MaxRuns
    /\ session_state' = [reset_state(session_state, FALSE)
                            EXCEPT !.processing_complete = FALSE]
    /\ ses_pc' = IF session_state.analysis_mode = "Análise Comparativa"
                 THEN "old" ELSE "single"
    /\ ses_run' = ses_run + 1
    /\ ses_value' = None
    /\ UNCHANGED <<ses_last, run_pc, run_log, run_new_chunks, run_error,
                   extraction_vars, parser_vars, comparison_vars, text_vars,
                   chunker_vars>>

\* one step of the try block: extract(old_file, ...), extract(new_file, ...)
\* and compare_creditors_with_ai (lines 241-252), or the extraction of the
\* single document (lines 278-307). A step that raises ends the run in the
\* handler of lines 262-265 or 317-320; the last step leaves the value to
\* store.
RunStage ==
    /\ ses_pc \in {"old", "new", "compare", "single"}
    /\ \E outcome \in {"returns"} \cup
                      (IF ses_pc = "compare" THEN {"comparison"}
                       ELSE {"chunking", "extraction", "consolidation"}) :
       \E empty \in BOOLEAN :
          IF outcome = "returns"
          THEN /\ ses_pc' = CASE ses_pc = "old" -> "new"
                              [] ses_pc = "new" -> "compare"
                              [] OTHER -> "store"
               /\ ses_value' = IF ses_pc \in {"compare", "single"}
                               THEN [run |-> ses_run, empty |-> empty]
                               ELSE ses_value
               /\ UNCHANGED ses_last
          ELSE /\ ses_pc' = "ready"
               /\ ses_value' = None
               /\ ses_last' = <<ses_last[2], "failed in " \o outcome>>
    /\ UNCHANGED <<session_state, ses_run, run_pc, run_log, run_new_chunks,
                   run_error, extraction_vars, parser_vars, comparison_vars,
                   text_vars, chunker_vars>>

\* line 254 or line 309: the result is stored in its slot
StoreResult ==
    /\ ses_pc = "store"
    /\ session_state' =
          IF session_state.analysis_mode = "Análise Comparativa"
          THEN [session_state EXCEPT !.comparison_results = ses_value]
          ELSE [session_state EXCEPT !.single_analysis_results = ses_value]
    /\ ses_pc' = "mark"
    /\ UNCHANGED <<ses_run, ses_value, ses_last, run_pc, run_log,
                   run_new_chunks, run_error, extraction_vars, parser_vars,
                   comparison_vars, text_vars, chunker_vars>>

\* line 255 or line 310, and the rerun of lines 260 or 315
MarkComplete ==
    /\ ses_pc = "mark"
    /\ session_state' = [session_state EXCEPT !.processing_complete = TRUE]
    /\ ses_pc' = "ready"
    /\ ses_value' = None
    /\ ses_last' = <<ses_last[2], "complete">>
    /\ UNCHANGED <<ses_run, run_pc, run_log, run_new_chunks, run_error,
                   extraction_vars, parser_vars, comparison_vars, text_vars,
                   chunker_vars>>

\* main, lines 64-68: the selector shows a mode other than the session's
SelectMode ==
    /\ ses_pc = "ready"
    /\ \E analysis_mode \in {"Análise Comparativa", "Análise Única"} :
          /\ session_state.analysis_mode # analysis_mode
          /\ session_state' = [reset_state(session_state, TRUE)
                                  EXCEPT !.analysis_mode = analysis_mode]
    /\ ses_last' = <<ses_last[2], "mode changed">>
    /\ UNCHANGED <<ses_pc, ses_run, ses_value, run_pc, run_log, run_new_chunks,
                   run_error, extraction_vars, parser_vars, comparison_vars,
                   text_vars, chunker_vars>>

\* the button under the results (lines 365-367, 391-393): reset_state() and
\* a rerun, in which main finds the selector unchanged and, if it differs
\* from the reset mode, resets again and restores the mode (lines 64-68)
NewAnalysis ==
    /\ ses_pc = "ready"
    /\ Displayed(session_state) # None
    /\ session_state' =
          IF session_state.analysis_mode = "Análise Comparativa"
          THEN reset_state(session_state, TRUE)
          ELSE [reset_state(reset_state(session_state, TRUE), TRUE)
                   EXCEPT !.analysis_mode = session_state.analysis_mode]
    /\ ses_last' = <<ses_last[2], "new analysis">>
    /\ UNCHANGED <<ses_pc, ses_run, ses_value, run_pc, run_log, run_new_chunks,
                   run_error, extraction_vars, parser_vars, comparison_vars,
                   text_vars, chunker_vars>>

NextSession ==
    \/ StartRun
    \/ RunStage
    \/ StoreResult
    \/ MarkComplete
    \/ SelectMode
    \/ NewAnalysis

SpecSession == InitSession /\ [][NextSession]_vars

\* the completion flag is off and both result slots hold None
Cleared ==
    /\ ~session_state.processing_complete
    /\ session_state.comparison_results = None
    /\ session_state.single_analysis_results = None

\* the slot of the current mode and the other slot
SlotOfMode ==
    IF session_state.analysis_mode = "Análise Comparativa"
    THEN <<session_state.comparison_results, session_state.single_analysis_results>>
    ELSE <<session_state.single_analysis_results, session_state.comparison_results>>

\* C29: a run clears the two result slots and the completion flag before
\* its first extraction; the flag is set only after the run's own result is
\* in its slot; after a failed run, a change of mode or a new session the
\* flag is off and both slots hold None; so a result that is shown is the
\* result of the latest run, and that run completed.
C29_NoStaleResults ==
    /\ ses_pc \in {"old", "new", "compare", "single", "store"} => Cleared
    /\ ses_pc = "mark" =>
          /\ ~session_state.processing_complete
          /\ SlotOfMode = <<ses_value, None>>
          /\ ses_value.run = ses_run
    /\ session_state.processing_complete =>
          /\ ses_pc = "ready"
          /\ ses_last[2] = "complete"
          /\ SlotOfMode[1].run = ses_run
          /\ SlotOfMode[2] = None
    /\ (ses_pc = "ready" /\ ses_last[2] # "complete") => Cleared
    /\ Displayed(session_state) # None =>
          /\ Displayed(session_state).run = ses_run
          /\ ses_last[2] = "complete"

\* a run that showed its result is followed by a run that fails in the
\* comparison: nothing is left of the first
C29_Witness ==
    /\ ses_pc = "ready"
    /\ ses_run = 2
    /\ ses_last = <<"complete", "failed in comparison">>
    /\ Cleared
    /\ Displayed(session_state) = None

====
